---- MODULE Spec2Model ----
(***************************************************************************)
(* A model of package hash: the identifier type Hash, the registry that    *)
(* init() fills, and the two Hasher variants Fixed and ExtendableHash.     *)
(*                                                                         *)
(* The cryptographic primitives themselves (SHA-2, SHA-3, SHAKE, BLAKE2X,  *)
(* HMAC) are external libraries.  Their output is modelled symbolically:   *)
(* an output byte is a record naming the primitive, the inputs it was       *)
(* computed from and its position in the output, so that two output bytes  *)
(* are equal exactly when they are the same byte of the same function      *)
(* applied to the same inputs.  A definition marked "faulty variant" is    *)
(* not part of the package: it is the definition that follows it with a    *)
(* plausible slip, against which the properties are tested.                *)
(***************************************************************************)
EXTENDS Integers, Sequences, FiniteSets, TLC

VARIABLES registry, h, written, last

vars == <<registry, h, written, last>>

(***************************************************************************)
(* Bounds of the model.                                                    *)
(***************************************************************************)
\* the most bytes absorbed by a hasher through Write
MaxAbsorbed == 2
\* sizes requested from a hasher reach Size() + MaxExtra
MaxExtra == 1
\* the most bytes squeezed out of one XOF between two resets
MaxStream == 100
\* identifiers of the external (crypto.Hash) type are 0..MaxCryptoID
MaxCryptoID == 600

(***************************************************************************)
(* The identifier type and its constants (hash.go).                        *)
(***************************************************************************)
\* type Hash uint8
HashBits == 8
HashIds == 0 .. (2 ^ HashBits - 1)

\* the values of crypto.SHA256 ... crypto.SHA3_512 in the built-in crypto
SHA256 == 5
SHA384 == 6
SHA512 == 7
SHA3_256 == 11
SHA3_384 == 12
SHA3_512 == 13
maxFixed == 20
SHAKE128 == maxFixed + 1
SHAKE256 == maxFixed + 2
BLAKE2XB == maxFixed + 3
BLAKE2XS == maxFixed + 4
maxID == maxFixed + 5

\* Hash(h): the conversion of a crypto.Hash (uint) to Hash (uint8) keeps the
\* low eight bits
ToHash(e) == e % (2 ^ HashBits)

FixedOutputLength == "fixed"
ExtendableOutputFunction == "extendable-output-function"
NoType == ""

size256 == 32
size384 == 48
size512 == 64
sec128 == 128
sec192 == 192
sec224 == 224
sec256 == 256
blockSHA256 == 64
blockSHA512 == 128
blockSHA3256 == 1088 \div 8
blockSHA3384 == 832 \div 8
blockSHA3512 == 576 \div 8
blockSHAKE128 == 1344 \div 8
blockSHAKE256 == 1088 \div 8

(***************************************************************************)
(* The registry: six arrays of length maxID, indexed from 0.               *)
(***************************************************************************)
NilFunc == [ctor |-> "nil", hid |-> 0]

\* var ( registeredHashes = [maxID]bool{} ... ): the zero values
EmptyRegistry ==
    [registeredHashes |-> [i \in 0 .. maxID - 1 |-> FALSE],
     hashes           |-> [i \in 0 .. maxID - 1 |-> NilFunc],
     names            |-> [i \in 0 .. maxID - 1 |-> ""],
     blockSizes       |-> [i \in 0 .. maxID - 1 |-> 0],
     outputSizes      |-> [i \in 0 .. maxID - 1 |-> 0],
     securityLevels   |-> [i \in 0 .. maxID - 1 |-> 0]]

\* faulty variant of register: leaves the name table alone
registerForgetsName(reg, id, n, name, block, output, security) ==
    [registeredHashes |-> [reg.registeredHashes EXCEPT ![id] = TRUE],
     hashes           |-> [reg.hashes EXCEPT ![id] = [ctor |-> n, hid |-> id]],
     names            |-> reg.names,
     blockSizes       |-> [reg.blockSizes EXCEPT ![id] = block],
     outputSizes      |-> [reg.outputSizes EXCEPT ![id] = output],
     securityLevels   |-> [reg.securityLevels EXCEPT ![id] = security]]

\* func (h Hash) register(n, name, block, output, security); n(h) is the
\* constructor n bound to the identifier h
register(reg, id, n, name, block, output, security) ==
    [registeredHashes |-> [reg.registeredHashes EXCEPT ![id] = TRUE],
     hashes           |-> [reg.hashes EXCEPT ![id] = [ctor |-> n, hid |-> id]],
     names            |-> [reg.names EXCEPT ![id] = name],
     blockSizes       |-> [reg.blockSizes EXCEPT ![id] = block],
     outputSizes      |-> [reg.outputSizes EXCEPT ![id] = output],
     securityLevels   |-> [reg.securityLevels EXCEPT ![id] = security]]

\* the calls of init(), in the order of the source
initCalls ==
    << <<SHA256,   "newFixed", "SHA-256",  blockSHA256,   size256, sec128>>,
       <<SHA384,   "newFixed", "SHA-384",  blockSHA512,   size384, sec192>>,
       <<SHA512,   "newFixed", "SHA-512",  blockSHA512,   size512, sec256>>,
       <<SHA3_256, "newFixed", "SHA3-256", blockSHA3256,  size256, sec128>>,
       <<SHA3_384, "newFixed", "SHA3-384", blockSHA3384,  size384, sec192>>,
       <<SHA3_512, "newFixed", "SHA3-512", blockSHA3512,  size512, sec256>>,
       <<SHAKE128, "newXOF",   "SHAKE128", blockSHAKE128, size256, sec128>>,
       <<SHAKE256, "newXOF",   "SHAKE256", blockSHAKE256, size256, sec224>>,
       <<BLAKE2XB, "newXOF",   "BLAKE2XB", 0,             size256, sec128>>,
       <<BLAKE2XS, "newXOF",   "BLAKE2XS", 0,             size256, sec128>> >>

RECURSIVE initFrom(_, _)
initFrom(reg, k) ==
    IF k > Len(initCalls) THEN reg
    ELSE LET c == initCalls[k]
         IN  initFrom(register(reg, c[1], c[2], c[3], c[4], c[5], c[6]), k + 1)

\* func init()
init == initFrom(EmptyRegistry, 1)

(***************************************************************************)
(* Results of calls.  A call either returns or panics; panic = "" means it *)
(* returned.                                                               *)
(***************************************************************************)
NoPanic == ""
errHmacKeySize == "hmac key length is larger than hash output size"
errSmallOutputSize == "requested output size too small"
errIndexOutOfRange == "runtime error: index out of range"
errNilDereference == "runtime error: invalid memory address or nil pointer dereference"
errWriteAfterRead == "write after read"
errMakeSliceLen == "runtime error: makeslice: len out of range"

\* indexing a Go array of length maxID: an index at or above the length panics
InRange(id) == id \in 0 .. maxID - 1

(***************************************************************************)
(* The identifier's methods (hash.go).  reg is the registry they read.     *)
(***************************************************************************)
\* faulty variant of Available: indexes the array without the range test
AvailableNoRangeCheck(reg, id) ==
    IF InRange(id) THEN [val |-> reg.registeredHashes[id], panic |-> NoPanic]
    ELSE [val |-> FALSE, panic |-> errIndexOutOfRange]

\* func (h Hash) Available() bool: h < maxID && registeredHashes[h]
Available(reg, id) ==
    IF id < maxID THEN [val |-> reg.registeredHashes[id], panic |-> NoPanic]
    ELSE [val |-> FALSE, panic |-> NoPanic]

\* faulty variant of Type: decides by the range alone
TypeByRangeOnly(reg, id) ==
    CASE SHA256 <= id /\ id < maxFixed ->
             [val |-> FixedOutputLength, panic |-> NoPanic]
      [] maxFixed < id /\ id < maxID ->
             [val |-> ExtendableOutputFunction, panic |-> NoPanic]
      [] OTHER -> [val |-> NoType, panic |-> NoPanic]

\* func (h Hash) Type() Type
Type(reg, id) ==
    CASE SHA256 <= id /\ id < maxFixed /\ Available(reg, id).val ->
             [val |-> FixedOutputLength, panic |-> NoPanic]
      [] maxFixed < id /\ id < maxID /\ Available(reg, id).val ->
             [val |-> ExtendableOutputFunction, panic |-> NoPanic]
      [] OTHER -> [val |-> NoType, panic |-> NoPanic]

\* func FromCrypto(h crypto.Hash) Hash
FromCrypto(reg, e) ==
    LET i == ToHash(e)
    IN  IF Available(reg, i).val THEN [val |-> i, panic |-> NoPanic]
        ELSE [val |-> 0, panic |-> NoPanic]

\* func (h Hash) Size() int
Size(reg, id) ==
    IF InRange(id) THEN [val |-> reg.outputSizes[id], panic |-> NoPanic]
    ELSE [val |-> 0, panic |-> errIndexOutOfRange]

\* func (h Hash) String() string
String(reg, id) ==
    IF InRange(id) THEN [val |-> reg.names[id], panic |-> NoPanic]
    ELSE [val |-> "", panic |-> errIndexOutOfRange]

\* func (h Hash) BlockSize() int
BlockSize(reg, id) ==
    IF InRange(id) THEN [val |-> reg.blockSizes[id], panic |-> NoPanic]
    ELSE [val |-> 0, panic |-> errIndexOutOfRange]

\* func (h Hash) SecurityLevel() int
SecurityLevel(reg, id) ==
    IF InRange(id) THEN [val |-> reg.securityLevels[id], panic |-> NoPanic]
    ELSE [val |-> 0, panic |-> errIndexOutOfRange]

(***************************************************************************)
(* Bytes.  A byte a caller supplies is a literal; a byte a primitive       *)
(* produces names the primitive (fn), the hash function it was built from  *)
(* (f), the inputs it was computed from (in, a sequence of byte strings)   *)
(* and its position in the output (i).                                     *)
(***************************************************************************)
Lit(v) == [fn |-> "lit", f |-> "", in |-> <<>>, i |-> v]
OutByte(fn, f, in, i) == [fn |-> fn, f |-> f, in |-> in, i |-> i]

\* the bytes callers supply
Byte == {Lit(0), Lit(1)}

\* the chunks passed to one Write, the prefixes given to Sum, the messages given
\* to Hmac: empty or one byte
Chunks == {<<>>} \cup {<<b>> : b \in Byte}

\* the argument lists input ...[]byte: no chunk, one chunk or two chunks
ChunkLists == {<<>>} \cup {<<c>> : c \in Chunks} \cup {<<c, d>> : c \in Chunks, d \in Chunks}

RECURSIVE Flatten(_)
Flatten(l) == IF l = <<>> THEN <<>> ELSE Head(l) \o Flatten(Tail(l))

\* a key of n bytes
KeyOfLen(n) == [i \in 1 .. n |-> Lit(0)]

(***************************************************************************)
(* The external primitives, as the package uses them.                      *)
(***************************************************************************)
\* the digest size of each hash.Hash constructor newFixed selects
LibSize(f) ==
    CASE f = "sha256.New" -> 32
      [] f = "sha512.New384" -> 48
      [] f = "sha512.New" -> 64
      [] f = "sha3.New256" -> 32
      [] f = "sha3.New384" -> 48
      [] f = "sha3.New512" -> 64
      [] OTHER -> 0

\* hash.Hash.Sum of the bytes absorbed so far: the digest of f over them
LibDigest(f, absorbed) == [i \in 1 .. LibSize(f) |-> OutByte("hash", f, <<absorbed>>, i)]

\* hmac.New(f, key); Write(message); Sum(nil)
LibHmac(f, key, message) == [i \in 1 .. LibSize(f) |-> OutByte("hmac", f, <<key, message>>, i)]

\* bytes from+1 .. from+n of the output stream of XOF f over the absorbed bytes
LibStream(f, absorbed, from, n) == [i \in 1 .. n |-> OutByte("xof", f, <<absorbed>>, from + i)]

\* hkdf.Extract(f, secret, salt): the HMAC of the secret under the salt.  A
\* nil salt stands for LibSize(f) zero bytes, which HMAC pads with zero bytes
\* as it pads the empty key: both are the key <<>>
LibExtract(f, secret, salt) ==
    [i \in 1 .. LibSize(f) |-> OutByte("hkdf.Extract", f, <<salt, secret>>, i)]

\* how the bytes of an expansion name the key they were expanded from: the
\* whole output of one hkdf.Extract is named by its first byte with position
\* 0 (no byte of an output has that position), any other key by itself
KeyName(prk) ==
    IF prk # <<>> /\ prk[1].fn = "hkdf.Extract" /\ prk = LibExtract(prk[1].f, prk[1].in[2], prk[1].in[1])
    THEN <<[prk[1] EXCEPT !.i = 0]>>
    ELSE prk

\* the first Read(p) on the reader hkdf.Expand(f, prk, info) returns: the
\* reader yields at most 255 blocks of LibSize(f) bytes; a request for more
\* returns an error and leaves p as it was, any other fills p
LibExpandRead(f, prk, info, p) ==
    LET in == <<KeyName(prk), info>>
    IN  IF Len(p) > 255 * LibSize(f) THEN [out |-> p, n |-> 0, err |-> "hkdf: entropy limit reached"]
        ELSE [out |-> [i \in 1 .. Len(p) |-> OutByte("hkdf.Expand", f, in, i)],
              n |-> Len(p), err |-> ""]

\* io.ReadFull(r, p) on that reader: one Read(p), which fills p or fails
LibReadFull(f, prk, info, p) == LibExpandRead(f, prk, info, p)

(***************************************************************************)
(* Hashers.  kind is the dynamic type behind the Hasher interface; f is    *)
(* the primitive the constructor selected; absorbed is what the primitive  *)
(* has been written; readMode and pos are the XOF's squeezing state.       *)
(***************************************************************************)
NilHasher == [kind |-> "nil", id |-> 0, f |-> "nil", absorbed |-> <<>>, readMode |-> FALSE, pos |-> 0]

\* what a method call produces: the hasher afterwards, the bytes returned, the
\* count returned by Write, and the panic that ended the call, if any
Ret(x, out, n, panic) == [h |-> x, out |-> out, n |-> n, panic |-> panic]

\* int(size) for a uint: values above the largest int wrap to negative ones
\* (the largest int is 2^31 - 1 where int has 32 bits; every size the model
\* draws is far below it)
MaxInt == 2147483647
UintToInt(u) == IF u <= MaxInt THEN u ELSE u - 2 * MaxInt - 2

\* newFixed: the switch selecting hashFunc
hashFunc(hid) ==
    CASE hid = SHA256 -> "sha256.New"
      [] hid = SHA384 -> "sha512.New384"
      [] hid = SHA512 -> "sha512.New"
      [] hid = SHA3_256 -> "sha3.New256"
      [] hid = SHA3_384 -> "sha3.New384"
      [] hid = SHA3_512 -> "sha3.New512"
      [] OTHER -> "nil"

\* newFixed(hid)(): &Fixed{id: hid, hash: hashFunc(), f: hashFunc}
newFixed(hid) ==
    IF hashFunc(hid) = "nil" THEN Ret(NilHasher, <<>>, 0, errNilDereference)
    ELSE Ret([kind |-> "Fixed", id |-> hid, f |-> hashFunc(hid), absorbed |-> <<>>,
              readMode |-> FALSE, pos |-> 0], <<>>, 0, NoPanic)

\* newXOF: the switch selecting ext.xof
xofFunc(hid) ==
    CASE hid = SHAKE128 -> "sha3.NewShake128"
      [] hid = SHAKE256 -> "sha3.NewShake256"
      [] hid = BLAKE2XB -> "blake2b.NewXOF"
      [] hid = BLAKE2XS -> "blake2s.NewXOF"
      [] OTHER -> "nil"

\* newXOF(hid)(): &ExtendableHash{xof: ..., id: hid}
newXOF(hid) ==
    Ret([kind |-> "Extendable", id |-> hid, f |-> xofFunc(hid), absorbed |-> <<>>,
         readMode |-> FALSE, pos |-> 0], <<>>, 0, NoPanic)

\* faulty variant of New: every registered constructor builds an ExtendableHash
NewWrongVariant(reg, id) ==
    IF ~InRange(id) THEN Ret(NilHasher, <<>>, 0, errIndexOutOfRange)
    ELSE LET c == reg.hashes[id]
         IN  CASE c.ctor = "newFixed" -> newXOF(c.hid)
               [] c.ctor = "newXOF" -> newXOF(c.hid)
               [] OTHER -> Ret(NilHasher, <<>>, 0, errNilDereference)

\* func (h Hash) New() Hasher: hashes[h]()
New(reg, id) ==
    IF ~InRange(id) THEN Ret(NilHasher, <<>>, 0, errIndexOutOfRange)
    ELSE LET c == reg.hashes[id]
         IN  CASE c.ctor = "newFixed" -> newFixed(c.hid)
               [] c.ctor = "newXOF" -> newXOF(c.hid)
               [] OTHER -> Ret(NilHasher, <<>>, 0, errNilDereference)

(***************************************************************************)
(* Fixed (fixed.go).                                                       *)
(***************************************************************************)
\* func (h *Fixed) Algorithm() Hash / func (h *ExtendableHash) Algorithm() Hash
Algorithm(x) == x.id

\* func (h *Fixed) Write(input []byte) (int, error)
FixedWrite(x, input) == Ret([x EXCEPT !.absorbed = @ \o input], <<>>, Len(input), NoPanic)

\* faulty variant of Fixed.Sum: finalising consumes the accumulated input
FixedSumFinalizes(x, prefix) ==
    Ret([x EXCEPT !.absorbed = <<>>], prefix \o LibDigest(x.f, x.absorbed), 0, NoPanic)

\* func (h *Fixed) Sum(prefix []byte) []byte
FixedSum(x, prefix) == Ret(x, prefix \o LibDigest(x.f, x.absorbed), 0, NoPanic)

\* faulty variant of Fixed.Read: a positive size below the digest's length cuts
\* the digest to size bytes
FixedReadTruncates(x, size) ==
    LET d == FixedSum(x, <<>>)
    IN  IF 0 < size /\ size < Len(d.out) THEN Ret(d.h, SubSeq(d.out, 1, size), 0, NoPanic) ELSE d

\* func (h *Fixed) Read(_ int) []byte
FixedRead(x, size) == FixedSum(x, <<>>)

\* func (h *Fixed) Reset()
FixedReset(x) == Ret([x EXCEPT !.absorbed = <<>>], <<>>, 0, NoPanic)

\* the loop  for _, i := range input { _, _ = h.Write(i) }
RECURSIVE FixedWriteAll(_, _)
FixedWriteAll(x, input) ==
    IF input = <<>> THEN x ELSE FixedWriteAll(FixedWrite(x, Head(input)).h, Tail(input))

\* func (h *Fixed) Hash(_ uint, input ...[]byte) []byte
FixedHash(x, size, input) == FixedSum(FixedWriteAll(FixedReset(x).h, input), <<>>)

\* faulty variant of Fixed.Hmac: rejects a key of exactly Size() bytes
FixedHmacOffByOne(reg, x, message, key) ==
    IF Len(key) >= Size(reg, x.id).val THEN Ret(x, <<>>, 0, errHmacKeySize)
    ELSE Ret(x, LibHmac(x.f, key, message), 0, NoPanic)

\* func (h *Fixed) Hmac(message, key []byte) []byte
FixedHmac(reg, x, message, key) ==
    IF Len(key) > Size(reg, x.id).val THEN Ret(x, <<>>, 0, errHmacKeySize)
    ELSE Ret(x, LibHmac(x.f, key, message), 0, NoPanic)

\* make([]byte, n): n zero bytes
MakeBytes(n) == [i \in 1 .. n |-> Lit(0)]

\* faulty variant of Fixed.HKDF: a length of zero is taken as it is
FixedHKDFNoDefault(reg, x, secret, salt, info, length) ==
    IF length < 0 THEN Ret(x, <<>>, 0, errMakeSliceLen)
    ELSE Ret(x, LibReadFull(x.f, LibExtract(x.f, secret, salt), info, MakeBytes(length)).out,
             0, NoPanic)

\* func (h *Fixed) HKDF(secret, salt, info []byte, length int) []byte; hkdf.New
\* is hkdf.Expand over hkdf.Extract(secret, salt); the result of ReadFull is
\* dropped and dst returned
FixedHKDF(reg, x, secret, salt, info, length) ==
    LET n == IF length = 0 THEN Size(reg, x.id).val ELSE length
    IN  IF n < 0 THEN Ret(x, <<>>, 0, errMakeSliceLen)
        ELSE Ret(x, LibReadFull(x.f, LibExtract(x.f, secret, salt), info, MakeBytes(n)).out,
                 0, NoPanic)

\* faulty variant of Fixed.HKDFExtract: salt and secret change places
FixedHKDFExtractSwapped(x, secret, salt) == Ret(x, LibExtract(x.f, salt, secret), 0, NoPanic)

\* func (h *Fixed) HKDFExtract(secret, salt []byte) []byte
FixedHKDFExtract(x, secret, salt) == Ret(x, LibExtract(x.f, secret, salt), 0, NoPanic)

\* func (h *Fixed) HKDFExpand(pseudorandomKey, info []byte, length int) []byte;
\* the result of Read is dropped and dst returned
FixedHKDFExpand(reg, x, pseudorandomKey, info, length) ==
    LET n == IF length = 0 THEN Size(reg, x.id).val ELSE length
    IN  IF n < 0 THEN Ret(x, <<>>, 0, errMakeSliceLen)
        ELSE Ret(x, LibExpandRead(x.f, pseudorandomKey, info, MakeBytes(n)).out, 0, NoPanic)

(***************************************************************************)
(* ExtendableHash.  The embedded xof panics on a Write after a Read, as    *)
(* its interface documents.                                                *)
(***************************************************************************)
\* faulty variant of ExtendableHash.Write: absorbs in every state
ExtWriteAlways(x, input) == Ret([x EXCEPT !.absorbed = @ \o input], <<>>, Len(input), NoPanic)

\* func (h *ExtendableHash) Write(input []byte) (int, error): h.xof.Write(input)
ExtWrite(x, input) ==
    IF x.readMode THEN Ret(x, <<>>, 0, errWriteAfterRead)
    ELSE Ret([x EXCEPT !.absorbed = @ \o input], <<>>, Len(input), NoPanic)

\* h.xof.Read(output): fills output with the next Len(output) bytes of the stream
xofRead(x, n) ==
    Ret([x EXCEPT !.readMode = TRUE, !.pos = @ + n], LibStream(x.f, x.absorbed, x.pos, n), 0, NoPanic)

\* faulty variant of ExtendableHash.Read: every Read starts the stream again
ExtReadRestarts(reg, x, size) ==
    IF size < Size(reg, x.id).val THEN Ret(x, <<>>, 0, errSmallOutputSize)
    ELSE Ret([x EXCEPT !.readMode = TRUE], LibStream(x.f, x.absorbed, 0, size), 0, NoPanic)

\* faulty variant of ExtendableHash.Read: accepts every non-negative size
ExtReadNoFloor(reg, x, size) ==
    IF size < 0 THEN Ret(x, <<>>, 0, errSmallOutputSize)
    ELSE xofRead(x, size)

\* func (h *ExtendableHash) Read(size int) []byte
ExtRead(reg, x, size) ==
    IF size < Size(reg, x.id).val THEN Ret(x, <<>>, 0, errSmallOutputSize)
    ELSE xofRead(x, size)

\* faulty variant of ExtendableHash.Reset: discards the absorbed input only
ExtResetKeepsStream(x) == Ret([x EXCEPT !.absorbed = <<>>], <<>>, 0, NoPanic)

\* func (h *ExtendableHash) Reset()
ExtReset(x) == Ret([x EXCEPT !.absorbed = <<>>, !.readMode = FALSE, !.pos = 0], <<>>, 0, NoPanic)

\* the loop  for _, i := range input { _, _ = h.Write(i) }; a panic of Write ends it
RECURSIVE ExtWriteAll(_, _)
ExtWriteAll(x, input) ==
    IF input = <<>> THEN Ret(x, <<>>, 0, NoPanic)
    ELSE LET w == ExtWrite(x, Head(input))
         IN  IF w.panic # NoPanic THEN w ELSE ExtWriteAll(w.h, Tail(input))

\* func (h *ExtendableHash) Hash(size uint, input ...[]byte) []byte
ExtHash(reg, x, size, input) ==
    LET w == ExtWriteAll(ExtReset(x).h, input)
    IN  IF w.panic # NoPanic THEN w ELSE ExtRead(reg, w.h, UintToInt(size))

\* faulty variant of ExtendableHash.Sum: returns the bytes at the stream
\* position without moving it
ExtSumPeeks(reg, x, prefix) ==
    LET r == xofRead(x, Size(reg, x.id).val)
    IN  Ret([x EXCEPT !.readMode = TRUE], prefix \o r.out, 0, NoPanic)

\* func (h *ExtendableHash) Sum(prefix []byte) []byte
ExtSum(reg, x, prefix) ==
    LET r == xofRead(x, Size(reg, x.id).val)
    IN  Ret(r.h, prefix \o r.out, 0, NoPanic)

(***************************************************************************)
(* The Hasher interface: each method dispatches on the dynamic type.       *)
(***************************************************************************)
HasherWrite(x, input) == IF x.kind = "Fixed" THEN FixedWrite(x, input) ELSE ExtWrite(x, input)

HasherRead(reg, x, size) == IF x.kind = "Fixed" THEN FixedRead(x, size) ELSE ExtRead(reg, x, size)

HasherSum(reg, x, prefix) == IF x.kind = "Fixed" THEN FixedSum(x, prefix) ELSE ExtSum(reg, x, prefix)

HasherReset(x) == IF x.kind = "Fixed" THEN FixedReset(x) ELSE ExtReset(x)

HasherHash(reg, x, size, input) ==
    IF x.kind = "Fixed" THEN FixedHash(x, size, input) ELSE ExtHash(reg, x, size, input)

\* func (h *Fixed) GetHashFunction() *Fixed / func (h *ExtendableHash) GetHashFunction() *Fixed
GetHashFunction(x) == IF x.kind = "Fixed" THEN x ELSE NilHasher

\* func (h *Fixed) GetXOF() *ExtendableHash / func (h *ExtendableHash) GetXOF() *ExtendableHash
GetXOF(x) == IF x.kind = "Extendable" THEN x ELSE NilHasher

\* func (h *Fixed) Size() int / func (h *ExtendableHash) Size() int: h.id.Size()
HasherSize(reg, x) == Size(reg, x.id)

\* func (h *Fixed) BlockSize() int / func (h *ExtendableHash) BlockSize() int:
\* h.id.BlockSize()
HasherBlockSize(reg, x) == BlockSize(reg, x.id)

\* faulty variant of Hash.Hash: passes size 0 to every hasher
IdHashZeroSize(reg, id, input) ==
    LET c == New(reg, id)
    IN  IF c.panic # NoPanic THEN c ELSE HasherHash(reg, c.h, 0, input)

\* func (h Hash) Hash(input ...[]byte) []byte: h.New().Hash(uint(h.Size()), input...)
IdHash(reg, id, input) ==
    LET c == New(reg, id)
        s == Size(reg, id)
    IN  IF c.panic # NoPanic THEN c
        ELSE IF s.panic # NoPanic THEN Ret(c.h, <<>>, 0, s.panic)
        ELSE HasherHash(reg, c.h, s.val, input)

(***************************************************************************)
(* The state machine.  registry is the package's tables; h is the hasher   *)
(* the caller holds (NilHasher before the first New); last records the     *)
(* latest call: its name, arguments and result, and for Read, Sum and      *)
(* Reset the hasher as it was before the call (pre).  written is a history *)
(* variable:                                                               *)
(* the bytes passed to Write, in order, since the hasher was constructed   *)
(* or last reset.                                                          *)
(***************************************************************************)
Call(op, id, size, input, prefix, key, pre, r, val) ==
    [op |-> op, id |-> id, size |-> size, input |-> input, prefix |-> prefix, key |-> key,
     pre |-> pre, out |-> r.out, n |-> r.n, panic |-> r.panic, val |-> val]

NoCall == Call("none", 0, 0, <<>>, <<>>, <<>>, NilHasher, Ret(NilHasher, <<>>, 0, NoPanic), 0)

Init ==
    /\ registry = init
    /\ h = NilHasher
    /\ written = <<>>
    /\ last = NoCall

\* the identifiers init() registers
Registered == {initCalls[k][1] : k \in 1 .. Len(initCalls)}

\* the sizes a caller asks of hasher x: negative, zero, and around x.Size()
SizeArgs(x) ==
    {-1, 0} \cup ((Size(registry, x.id).val - 1) .. (Size(registry, x.id).val + MaxExtra))

\* the key lengths a caller gives Hmac on hasher x: empty, and around x.Size()
KeyLens(x) ==
    {0} \cup ((Size(registry, x.id).val - 1) .. (Size(registry, x.id).val + MaxExtra))

\* hasher := id.New()
CallNew(id) ==
    LET r == New(registry, id)
    IN  /\ h' = IF r.panic = NoPanic THEN r.h ELSE h
        /\ written' = IF r.panic = NoPanic THEN <<>> ELSE written
        /\ last' = Call("New", id, 0, <<>>, <<>>, <<>>, NilHasher, r, 0)
        /\ UNCHANGED registry

\* hasher.Write(input)
CallWrite(input) ==
    LET r == HasherWrite(h, input)
    IN  /\ h.kind # "nil"
        /\ Len(r.h.absorbed) <= MaxAbsorbed
        /\ h' = r.h
        /\ written' = IF r.panic = NoPanic THEN written \o input ELSE written
        /\ last' = Call("Write", h.id, 0, <<input>>, <<>>, <<>>, NilHasher, r, 0)
        /\ UNCHANGED registry

\* hasher.Read(size)
CallRead(size) ==
    LET r == HasherRead(registry, h, size)
    IN  /\ h.kind # "nil"
        /\ r.h.pos <= MaxStream
        /\ h' = r.h
        /\ last' = Call("Read", h.id, size, <<>>, <<>>, <<>>, h, r, 0)
        /\ UNCHANGED <<registry, written>>

\* hasher.Sum(prefix)
CallSum(prefix) ==
    LET r == HasherSum(registry, h, prefix)
    IN  /\ h.kind # "nil"
        /\ r.h.pos <= MaxStream
        /\ h' = r.h
        /\ last' = Call("Sum", h.id, 0, <<>>, prefix, <<>>, h, r, 0)
        /\ UNCHANGED <<registry, written>>

\* hasher.Reset()
CallReset ==
    LET r == HasherReset(h)
    IN  /\ h.kind # "nil"
        /\ h' = r.h
        /\ written' = <<>>
        /\ last' = Call("Reset", h.id, 0, <<>>, <<>>, <<>>, h, r, 0)
        /\ UNCHANGED registry

\* hasher.Hash(size, input...)
CallHash(size, input) ==
    LET r == HasherHash(registry, h, size, input)
    IN  /\ h.kind # "nil"
        /\ Len(Flatten(input)) <= MaxAbsorbed
        /\ h' = r.h
        /\ written' = Flatten(input)
        /\ last' = Call("Hash", h.id, size, input, <<>>, <<>>, NilHasher, r, 0)
        /\ UNCHANGED registry

\* hasher.GetHashFunction().Hmac(message, key)
CallHmac(message, key) ==
    LET r == FixedHmac(registry, h, message, key)
    IN  /\ h.kind = "Fixed"
        /\ h' = r.h
        /\ last' = Call("Hmac", h.id, 0, <<message>>, <<>>, key, NilHasher, r, 0)
        /\ UNCHANGED <<registry, written>>

Next ==
    \/ \E id \in Registered : CallNew(id)
    \/ \E input \in Chunks : CallWrite(input)
    \/ \E size \in SizeArgs(h) : CallRead(size)
    \/ \E prefix \in Chunks : CallSum(prefix)
    \/ CallReset
    \/ \E size \in SizeArgs(h) \ {-1}, input \in ChunkLists : CallHash(size, input)
    \/ \E message \in Chunks, n \in KeyLens(h) : CallHmac(message, KeyOfLen(n))

Spec == Init /\ [][Next]_vars

(***************************************************************************)
(* Key derivation on the hasher the caller holds.                          *)
(***************************************************************************)
\* the secrets, salts and info strings a caller gives the key derivation
\* functions: a missing one (nil) and a one-byte one
KdfArgs == {<<>>, <<Lit(1)>>}

\* the lengths a caller asks of hasher x: negative, zero, one, and around
\* x.Size()
LengthArgs(x) ==
    {-1, 0, 1} \cup ((Size(registry, x.id).val - 1) .. (Size(registry, x.id).val + MaxExtra))

\* the most the expand step yields (255 blocks of x.Size() bytes), and one
\* byte more
LimitArgs(x) == {255 * Size(registry, x.id).val, 255 * Size(registry, x.id).val + 1}

\* the pseudorandom keys a caller gives HKDFExpand: what HKDFExtract has just
\* returned, or a one-byte key
PrkArgs == {<<Lit(1)>>} \cup (IF last.op = "HKDFExtract" THEN {last.out} ELSE {})

\* hasher.GetHashFunction().HKDF(secret, salt, info, length)
CallHKDF(secret, salt, info, length) ==
    LET r == FixedHKDF(registry, h, secret, salt, info, length)
    IN  /\ h.kind = "Fixed"
        /\ h' = r.h
        /\ last' = Call("HKDF", h.id, length, <<salt>>, info, secret, NilHasher, r, 0)
        /\ UNCHANGED <<registry, written>>

\* hasher.GetHashFunction().HKDFExtract(secret, salt)
CallHKDFExtract(secret, salt) ==
    LET r == FixedHKDFExtract(h, secret, salt)
    IN  /\ h.kind = "Fixed"
        /\ h' = r.h
        /\ last' = Call("HKDFExtract", h.id, 0, <<salt>>, <<>>, secret, NilHasher, r, 0)
        /\ UNCHANGED <<registry, written>>

\* hasher.GetHashFunction().HKDFExpand(pseudorandomKey, info, length)
CallHKDFExpand(pseudorandomKey, info, length) ==
    LET r == FixedHKDFExpand(registry, h, pseudorandomKey, info, length)
    IN  /\ h.kind = "Fixed"
        /\ h' = r.h
        /\ last' = Call("HKDFExpand", h.id, length, <<>>, info, pseudorandomKey, NilHasher, r, 0)
        /\ UNCHANGED <<registry, written>>

NextKdf ==
    \/ \E id \in Registered : CallNew(id)
    \/ \E secret \in KdfArgs, salt \in KdfArgs, info \in KdfArgs, length \in LengthArgs(h) :
          CallHKDF(secret, salt, info, length)
    \/ \E length \in LimitArgs(h) : CallHKDF(<<Lit(1)>>, <<>>, <<>>, length)
    \/ \E secret \in KdfArgs, salt \in KdfArgs : CallHKDFExtract(secret, salt)
    \/ \E pseudorandomKey \in PrkArgs, info \in KdfArgs, length \in LengthArgs(h) :
          CallHKDFExpand(pseudorandomKey, info, length)
    \/ \E pseudorandomKey \in PrkArgs, length \in LimitArgs(h) :
          CallHKDFExpand(pseudorandomKey, <<>>, length)

SpecKdf == Init /\ [][NextKdf]_vars

(***************************************************************************)
(* The identifier's functions, applied to every value of their argument.   *)
(***************************************************************************)
\* hash.FromCrypto(e)
CallFromCrypto(e) ==
    LET r == FromCrypto(registry, e)
    IN  /\ last' = Call("FromCrypto", e, 0, <<>>, <<>>, <<>>, NilHasher,
                        Ret(NilHasher, <<>>, 0, r.panic), r.val)
        /\ UNCHANGED <<registry, h, written>>

\* id.Available()
CallAvailable(id) ==
    LET r == Available(registry, id)
    IN  /\ last' = Call("Available", id, 0, <<>>, <<>>, <<>>, NilHasher,
                        Ret(NilHasher, <<>>, 0, r.panic), r.val)
        /\ UNCHANGED <<registry, h, written>>

\* id.Type()
CallType(id) ==
    LET r == Type(registry, id)
    IN  /\ last' = Call("Type", id, 0, <<>>, <<>>, <<>>, NilHasher,
                        Ret(NilHasher, <<>>, 0, r.panic), r.val)
        /\ UNCHANGED <<registry, h, written>>

NextId ==
    \/ \E e \in 0 .. MaxCryptoID : CallFromCrypto(e)
    \/ \E id \in HashIds : CallAvailable(id)
    \/ \E id \in HashIds : CallType(id)

SpecId == Init /\ [][NextId]_vars

(***************************************************************************)
(* The identifier's constructor and metadata accessors, applied to every   *)
(* value of the identifier, available or not.  The hasher New() returns is *)
(* recorded in the call's val and not kept.                                *)
(***************************************************************************)
\* _ = id.New()
CallIdNew(id) ==
    LET r == New(registry, id)
    IN  /\ last' = Call("IdNew", id, 0, <<>>, <<>>, <<>>, NilHasher, r, r.h)
        /\ UNCHANGED <<registry, h, written>>

\* id.String()
CallString(id) ==
    LET r == String(registry, id)
    IN  /\ last' = Call("String", id, 0, <<>>, <<>>, <<>>, NilHasher,
                        Ret(NilHasher, <<>>, 0, r.panic), r.val)
        /\ UNCHANGED <<registry, h, written>>

\* id.Size()
CallSize(id) ==
    LET r == Size(registry, id)
    IN  /\ last' = Call("Size", id, 0, <<>>, <<>>, <<>>, NilHasher,
                        Ret(NilHasher, <<>>, 0, r.panic), r.val)
        /\ UNCHANGED <<registry, h, written>>

\* id.BlockSize()
CallBlockSize(id) ==
    LET r == BlockSize(registry, id)
    IN  /\ last' = Call("BlockSize", id, 0, <<>>, <<>>, <<>>, NilHasher,
                        Ret(NilHasher, <<>>, 0, r.panic), r.val)
        /\ UNCHANGED <<registry, h, written>>

\* id.SecurityLevel()
CallSecurityLevel(id) ==
    LET r == SecurityLevel(registry, id)
    IN  /\ last' = Call("SecurityLevel", id, 0, <<>>, <<>>, <<>>, NilHasher,
                        Ret(NilHasher, <<>>, 0, r.panic), r.val)
        /\ UNCHANGED <<registry, h, written>>

\* id.New().BlockSize()
CallNewBlockSize(id) ==
    LET c == New(registry, id)
        r == IF c.panic # NoPanic THEN [val |-> 0, panic |-> c.panic]
             ELSE HasherBlockSize(registry, c.h)
    IN  /\ last' = Call("NewBlockSize", id, 0, <<>>, <<>>, <<>>, NilHasher,
                        Ret(NilHasher, <<>>, 0, r.panic), r.val)
        /\ UNCHANGED <<registry, h, written>>

NextMeta ==
    \/ \E id \in HashIds : CallIdNew(id)
    \/ \E id \in HashIds : CallString(id)
    \/ \E id \in HashIds : CallSize(id)
    \/ \E id \in HashIds : CallBlockSize(id)
    \/ \E id \in HashIds : CallSecurityLevel(id)
    \/ \E id \in HashIds : CallNewBlockSize(id)

SpecMeta == Init /\ [][NextMeta]_vars

(***************************************************************************)
(* Package initialisation, one call of register at a time, followed by the *)
(* hasher's operations.  Go runs init() to completion before any code that *)
(* imports the package can call it, so no other operation is enabled until *)
(* the last call of init() has been made.                                  *)
(***************************************************************************)
InitReg ==
    /\ registry = EmptyRegistry
    /\ h = NilHasher
    /\ written = <<>>
    /\ last = NoCall

\* the number of calls of init() made so far: each call registers one more
\* identifier
initPos == Cardinality({id \in 0 .. maxID - 1 : registry.registeredHashes[id]})

InitDone == initPos = Len(initCalls)

\* the next call of init(): id.register(n, name, block, output, security)
CallRegister ==
    LET k == initPos + 1
        c == initCalls[k]
    IN  /\ k <= Len(initCalls)
        /\ registry' = register(registry, c[1], c[2], c[3], c[4], c[5], c[6])
        /\ last' = Call("register", c[1], 0, <<>>, <<>>, <<>>, NilHasher,
                        Ret(NilHasher, <<>>, k, NoPanic), 0)
        /\ UNCHANGED <<h, written>>

NextReg ==
    \/ CallRegister
    \/ (InitDone /\ Next)

SpecReg == InitReg /\ [][NextReg]_vars

(***************************************************************************)
(* Properties.                                                             *)
(***************************************************************************)
\* the identifiers registered with newFixed and with newXOF
FixedIds == {SHA256, SHA384, SHA512, SHA3_256, SHA3_384, SHA3_512}
XofIds == {SHAKE128, SHAKE256, BLAKE2XB, BLAKE2XS}

\* C1: on an Extendable hasher, a Read that directly follows a Read continues
\* the output stream: the two results, concatenated, are what one Read of
\* n1 + n2 bytes returns from the state before the first Read, split at n1,
\* and no byte of the second result is a byte of the first.
C1_ConsecutiveReadsContinueStream ==
    [][ ( /\ last.op = "Read" /\ last.panic = NoPanic /\ last.pre.kind = "Extendable"
          /\ last'.op = "Read" /\ last'.panic = NoPanic /\ last'.pre = h )
        => LET whole == ExtRead(registry, last.pre, last.size + last'.size).out
           IN  /\ last.out \o last'.out = whole
               /\ Len(last.out) = last.size
               /\ Len(last'.out) = last'.size
               /\ SubSeq(whole, 1, last.size) = last.out
               /\ \A i \in 1 .. Len(last.out), j \in 1 .. Len(last'.out) :
                      last.out[i] # last'.out[j] ]_vars

\* a second Read(Size()) has returned, after a first Read(Size()+1) of an
\* Extendable hasher that had absorbed input
C1_Witness ==
    /\ last.op = "Read" /\ last.panic = NoPanic
    /\ last.pre.kind = "Extendable"
    /\ last.pre.absorbed # <<>>
    /\ last.pre.pos = size256 + 1
    /\ last.size = size256
    /\ h.pos = 2 * size256 + 1

\* the digest a Read or Sum returned: the result without the prefix
DigestPart(c) == SubSeq(c.out, Len(c.prefix) + 1, Len(c.out))

\* C2: on a Fixed hasher, Read and Sum leave the hasher as it was and return
\* (after the prefix) the digest of the bytes written so far, whatever was
\* read in between; a Read or Sum that directly follows another returns the
\* same digest.
C2_FixedReadSumArePure ==
    [][ /\ ( (last'.op \in {"Read", "Sum"} /\ last'.pre.kind = "Fixed")
             => /\ last'.panic = NoPanic
                /\ h' = h
                /\ written' = written
                /\ last'.out = last'.prefix \o LibDigest(h.f, written) )
        /\ ( ( /\ last.op \in {"Read", "Sum"} /\ last.pre.kind = "Fixed"
               /\ last'.op \in {"Read", "Sum"} /\ last'.pre = h )
             => DigestPart(last') = DigestPart(last) ) ]_vars

\* Sum(prefix) has returned on a Fixed hasher that was written two bytes
C2_Witness ==
    /\ last.op = "Sum" /\ last.pre.kind = "Fixed"
    /\ last.prefix # <<>>
    /\ Len(written) = 2
    /\ h = last.pre

\* C3 as claimed: every Write returns, having consumed all of its input.
C3_WriteNeverFails ==
    last.op = "Write" => (last.panic = NoPanic /\ last.n = Len(last.input[1]))

\* C3 amended: a Write aborts exactly when the hasher is Extendable and output
\* has been read from it since it was constructed or last reset, and then the
\* hasher is unchanged; every other Write consumes all of its input and
\* appends it to what the hasher has absorbed.
C3_WriteFailsOnlyAfterRead ==
    [][ last'.op = "Write"
        => IF h.kind = "Extendable" /\ h.readMode
           THEN last'.panic # NoPanic /\ h' = h /\ written' = written
           ELSE /\ last'.panic = NoPanic
                /\ last'.n = Len(last'.input[1])
                /\ h'.absorbed = h.absorbed \o last'.input[1]
                /\ h' = [h EXCEPT !.absorbed = h'.absorbed] ]_vars

\* a Write on an Extendable hasher that had been read from has aborted
C3_Witness ==
    /\ last.op = "Write" /\ last.panic # NoPanic
    /\ h.kind = "Extendable" /\ h.pos >= size256

\* C4: on an Extendable hasher, Read(size) and Hash(size, ...) return exactly
\* size bytes when size >= Size() and abort with errSmallOutputSize, returning
\* nothing, when size < Size().
C4_XofSizeFloor ==
    (last.op \in {"Read", "Hash"} /\ h.kind = "Extendable")
    => IF last.size >= Size(registry, last.id).val
       THEN last.panic = NoPanic /\ Len(last.out) = last.size
       ELSE last.panic = errSmallOutputSize /\ last.out = <<>>

\* Hash(Size()-1, ...) on an Extendable hasher has aborted
C4_Witness ==
    /\ last.op = "Hash" /\ h.kind = "Extendable"
    /\ last.size = Size(registry, last.id).val - 1
    /\ last.input # <<>>
    /\ last.panic = errSmallOutputSize

\* C5: Hmac aborts with errHmacKeySize, returning nothing, exactly when the
\* key is longer than Size(); otherwise it returns a MAC of Size() bytes.
C5_HmacKeyBoundary ==
    last.op = "Hmac"
    => IF Len(last.key) > Size(registry, last.id).val
       THEN last.panic = errHmacKeySize /\ last.out = <<>>
       ELSE last.panic = NoPanic /\ Len(last.out) = Size(registry, last.id).val

\* Hmac with a key of exactly Size() bytes has returned a MAC
C5_Witness ==
    /\ last.op = "Hmac" /\ last.panic = NoPanic
    /\ Len(last.key) = Size(registry, last.id).val
    /\ Len(last.out) = Size(registry, last.id).val

\* C6 as claimed: FromCrypto(e) is e when e is the crypto identifier of one of
\* the six registered fixed algorithms, and zero for every other value of e.
C6_FromCryptoZeroUnlessMapped ==
    last.op = "FromCrypto"
    => /\ last.panic = NoPanic
       /\ last.val = IF last.id \in FixedIds THEN last.id ELSE 0

\* C7: Available() is true exactly for the identifiers below maxID that init
\* registered: the ten of initCalls; it never aborts.
C7_AvailableIffRegistered ==
    /\ \A id \in Registered : Available(registry, id).val
    /\ Cardinality(Registered) = 10
    /\ last.op = "Available"
       => /\ last.panic = NoPanic
          /\ last.val = (last.id < maxID /\ last.id \in Registered)
          /\ last.id \in {0, 1, maxFixed} => last.val = FALSE
          /\ last.id >= maxID => last.val = FALSE

\* Available() has answered false for the identifier maxID
C7_Witness == last.op = "Available" /\ last.id = maxID /\ last.val = FALSE

\* C8: Type() is "fixed" exactly for the registered identifiers of the fixed
\* range, "extendable-output-function" exactly for those of the extendable
\* range, and empty for every other value, among them 0, maxFixed and maxID.
C8_TypeByRangeAndAvailability ==
    last.op = "Type"
    => /\ last.panic = NoPanic
       /\ last.val = IF last.id \in FixedIds THEN FixedOutputLength
                     ELSE IF last.id \in XofIds THEN ExtendableOutputFunction
                     ELSE NoType
       /\ (last.val = FixedOutputLength)
             = (Available(registry, last.id).val /\ SHA256 <= last.id /\ last.id < maxFixed)
       /\ (last.val = ExtendableOutputFunction)
             = (Available(registry, last.id).val /\ maxFixed < last.id /\ last.id < maxID)
       /\ (last.id \in {0, maxFixed} \/ last.id >= maxID) => last.val = NoType

\* Type() has answered the empty type for the boundary identifier maxFixed
C8_Witness == last.op = "Type" /\ last.id = maxFixed /\ last.val = NoType

\* C9: New() of a registered identifier returns a hasher that has absorbed and
\* emitted nothing, whose Algorithm() is the identifier and whose variant is
\* the identifier's Type(): GetHashFunction() is non-nil and GetXOF() nil for
\* a fixed one, the reverse for an extendable one.
C9_NewMatchesIdentifier ==
    (last.op = "New" /\ last.id \in Registered)
    => /\ last.panic = NoPanic
       /\ Algorithm(h) = last.id
       /\ h.absorbed = <<>> /\ ~h.readMode /\ h.pos = 0
       /\ Type(registry, last.id).val \in {FixedOutputLength, ExtendableOutputFunction}
       /\ Type(registry, last.id).val = FixedOutputLength
             => (GetHashFunction(h) = h /\ GetXOF(h) = NilHasher)
       /\ Type(registry, last.id).val = ExtendableOutputFunction
             => (GetXOF(h) = h /\ GetHashFunction(h) = NilHasher)

\* New() of an extendable identifier has returned while another hasher was held
C9_Witness ==
    /\ last.op = "New" /\ last.id = SHAKE256
    /\ h.kind = "Extendable" /\ h.id = SHAKE256

\* the size that finalises hasher x with its standard output size
StandardSize(x) == IF x.kind = "Fixed" THEN 0 ELSE Size(registry, x.id).val

\* C10: the one-shot id.Hash(inputs...) returns what a hasher made by id.New()
\* returns (a) from Hash(standard size, inputs...), whatever the hasher held
\* before, and (b) from a standard-size Read after the same bytes were
\* written to it chunk by chunk.
C10_OneShotEqualsStreaming ==
    /\ (last.op = "Hash" /\ last.size = StandardSize(h))
       => /\ last.panic = NoPanic
          /\ IdHash(registry, last.id, last.input).panic = NoPanic
          /\ IdHash(registry, last.id, last.input).out = last.out
    /\ ( /\ last.op = "Read" /\ last.panic = NoPanic /\ last.pre.pos = 0
         /\ (h.kind = "Fixed" \/ last.size = StandardSize(h)) )
       => \A l \in ChunkLists :
             Flatten(l) = written
             => /\ IdHash(registry, last.id, l).panic = NoPanic
                /\ IdHash(registry, last.id, l).out = last.out

\* a standard-size Read has returned on a fresh Extendable hasher that had
\* been written two chunks
C10_Witness ==
    /\ last.op = "Read" /\ last.panic = NoPanic
    /\ last.pre.kind = "Extendable" /\ last.pre.pos = 0
    /\ last.size = Size(registry, last.id).val
    /\ Len(written) = 2
    /\ written[1] # written[2]

C12_UnavailableNeverAborts ==
    ( /\ last.op \in {"IdNew", "String", "Size", "BlockSize", "SecurityLevel"}
      /\ ~Available(registry, last.id).val )
    => /\ last.panic = NoPanic
       /\ last.op = "IdNew" => last.val = NilHasher
       /\ last.op = "String" => last.val = ""
       /\ last.op \in {"Size", "BlockSize", "SecurityLevel"} => last.val = 0

\* C13: BlockSize() is 0 for every available extendable identifier, asked of
\* the identifier and asked of a hasher made from it, and is non-zero only
\* for fixed identifiers.
C13_XofBlockSizeZero ==
    (last.op \in {"BlockSize", "NewBlockSize"} /\ last.panic = NoPanic)
    => /\ (Available(registry, last.id).val /\ last.id \in XofIds) => last.val = 0
       /\ last.val # 0 => last.id \in FixedIds

\* C14: HKDF(secret, salt, info, length) and HKDFExpand(prk, info, length)
\* return exactly Size() bytes when length is 0 and exactly length bytes when
\* length is positive, and what they return for length 0 is what they return
\* for length Size().
C14_KdfLength ==
    (last.op \in {"HKDF", "HKDFExpand"} /\ last.size >= 0)
    => /\ last.panic = NoPanic
       /\ last.size = 0 => Len(last.out) = Size(registry, last.id).val
       /\ last.size > 0 => Len(last.out) = last.size
       /\ (last.op = "HKDF" /\ last.size = 0)
             => last.out = FixedHKDF(registry, h, last.key, last.input[1], last.prefix,
                                     Size(registry, last.id).val).out
       /\ (last.op = "HKDFExpand" /\ last.size = 0)
             => last.out = FixedHKDFExpand(registry, h, last.key, last.prefix,
                                           Size(registry, last.id).val).out

\* HKDF has returned for length 0 on a SHA-512 hasher, with a salt and an info
C14_Witness ==
    /\ last.op = "HKDF" /\ last.size = 0 /\ last.panic = NoPanic
    /\ h.kind = "Fixed" /\ h.id = SHA512
    /\ last.input[1] # <<>> /\ last.prefix # <<>>
    /\ Len(last.out) = size512

\* C15: HKDFExtract returns Size() bytes, and HKDFExpand of what
\* HKDFExtract(secret, salt) returned, with info and length L, returns what
\* HKDF(secret, salt, info, L) returns, for every L, zero included.
C15_ExtractThenExpandIsHKDF ==
    [][ /\ last'.op = "HKDFExtract"
           => (last'.panic = NoPanic /\ Len(last'.out) = Size(registry, last'.id).val)
        /\ ( /\ last.op = "HKDFExtract" /\ last'.op = "HKDFExpand"
             /\ last'.key = last.out /\ last'.size >= 0 )
           => LET whole == FixedHKDF(registry, h, last.key, last.input[1], last'.prefix, last'.size)
              IN  /\ last'.panic = whole.panic
                  /\ last'.out = whole.out ]_vars

\* HKDFExpand has returned for length 0 on the key HKDFExtract returned for a
\* secret and a salt
C15_Witness ==
    /\ last.op = "HKDFExpand" /\ last.size = 0 /\ last.panic = NoPanic
    /\ last.key = FixedHKDFExtract(h, <<Lit(1)>>, <<Lit(1)>>).out
    /\ last.prefix # <<>>
    /\ h.id = SHA3_384

\* C16: a call of Fixed.Hmac, ExtendableHash.Read or ExtendableHash.Hash that
\* aborts leaves the hasher as it was before the call: its absorbed input,
\* its mode and its stream position are unchanged.
C16_AbortLeavesHasherUntouched ==
    [][ (last'.op \in {"Hmac", "Read", "Hash"} /\ last'.panic # NoPanic) => h' = h ]_vars

\* the latest call c, made on hasher x instead
Replay(c, x) ==
    CASE c.op = "Write" -> HasherWrite(x, c.input[1])
      [] c.op = "Read" -> HasherRead(registry, x, c.size)
      [] c.op = "Sum" -> HasherSum(registry, x, c.prefix)
      [] c.op = "Reset" -> HasherReset(x)
      [] c.op = "Hash" -> HasherHash(registry, x, c.size, c.input)
      [] OTHER -> FixedHmac(registry, x, c.input[1], c.key)

\* C17: Reset leaves a hasher of either variant as New() makes it, so a call
\* that follows a Reset (a Write on an Extendable hasher that had been read
\* from included) returns, panics and leaves the hasher exactly as the same
\* call does on a fresh hasher; and Hash(size, inputs...) returns, panics and
\* leaves the hasher exactly as it does on a fresh hasher, whatever the
\* hasher held before.
C17_ResetReturnsToInitialized ==
    [][ LET fresh == New(registry, h.id).h
        IN  /\ last'.op = "Reset" => (last'.panic = NoPanic /\ h' = fresh)
            /\ ( (last.op = "Reset" /\ last'.op # "New") \/ last'.op = "Hash" )
               => /\ last'.out = Replay(last', fresh).out
                  /\ last'.n = Replay(last', fresh).n
                  /\ last'.panic = Replay(last', fresh).panic
                  /\ h' = Replay(last', fresh).h
            /\ (last.op = "Reset" /\ last'.op = "Write") => last'.panic = NoPanic ]_vars

\* Reset has returned on an Extendable hasher that had absorbed input and had
\* been read from
C17_Witness ==
    /\ last.op = "Reset" /\ last.panic = NoPanic
    /\ last.pre.kind = "Extendable" /\ last.pre.absorbed # <<>>
    /\ last.pre.readMode /\ last.pre.pos > 0
    /\ h.absorbed = <<>> /\ ~h.readMode /\ h.pos = 0

\* C18: on an Extendable hasher, Sum(prefix) returns prefix followed by
\* exactly Size() bytes, which are the bytes Read(Size()) returns from the
\* same state, and leaves the hasher as that Read leaves it: the stream
\* position has advanced by Size(), and a Read or Sum that follows returns
\* the bytes after them.
C18_XofSumReadsStream ==
    [][ /\ (last'.op = "Sum" /\ last'.pre.kind = "Extendable")
           => LET n == Size(registry, last'.id).val
                  r == ExtRead(registry, last'.pre, n)
                  k == Len(last'.prefix)
              IN  /\ last'.panic = NoPanic
                  /\ Len(last'.out) = k + n
                  /\ SubSeq(last'.out, 1, k) = last'.prefix
                  /\ SubSeq(last'.out, k + 1, k + n) = r.out
                  /\ h' = r.h
                  /\ h'.pos = last'.pre.pos + n
        /\ ( /\ last.op = "Sum" /\ last.pre.kind = "Extendable"
             /\ last'.op \in {"Read", "Sum"} /\ last'.panic = NoPanic /\ last'.pre = h )
           => LET n == Size(registry, last.id).val
                  k == Len(last.prefix)
                  k2 == Len(last'.prefix)
                  first == SubSeq(last.out, k + 1, Len(last.out))
                  second == SubSeq(last'.out, k2 + 1, Len(last'.out))
              IN  first \o second = ExtRead(registry, last.pre, n + Len(second)).out ]_vars

\* Sum has returned, for a prefix that is not empty, on an Extendable hasher
\* that had absorbed input and had already been read from
C18_Witness ==
    /\ last.op = "Sum" /\ last.panic = NoPanic /\ last.prefix # <<>>
    /\ last.pre.kind = "Extendable" /\ last.pre.absorbed # <<>> /\ last.pre.pos > 0
    /\ Len(last.out) = Len(last.prefix) + Size(registry, last.id).val
    /\ h.pos = last.pre.pos + Size(registry, last.id).val

\* the registry entry of id holds a constructor that builds a hasher, a
\* name, an output size and a security level
Populated(reg, id) ==
    /\ reg.registeredHashes[id]
    /\ reg.hashes[id] # NilFunc
    /\ New(reg, id).panic = NoPanic
    /\ reg.names[id] # ""
    /\ reg.blockSizes[id] >= 0
    /\ reg.outputSizes[id] > 0
    /\ reg.securityLevels[id] > 0

C20_KdfPrefixConsistent ==
    (last.op \in {"HKDF", "HKDFExpand"} /\ last.size > 0 /\ last.panic = NoPanic)
    => /\ \A i \in 1 .. Len(last.out) : last.out[i].fn = "hkdf.Expand"
       /\ \A L2 \in LengthArgs(h) \cup LimitArgs(h) :
             L2 >= last.size
             => LET longer == IF last.op = "HKDF"
                              THEN FixedHKDF(registry, h, last.key, last.input[1], last.prefix, L2)
                              ELSE FixedHKDFExpand(registry, h, last.key, last.prefix, L2)
                IN  SubSeq(longer.out, 1, last.size) = last.out

====
